---------------------------- MODULE Spec2Model ----------------------------
(***************************************************************************)
(* Model of the two scripts of the repository:                             *)
(*   - LaserPointerDetector (detect_laser, detect_laser_hsv), the          *)
(*     brightness / HSV blob tracker with its optional previous position;  *)
(*   - tiktokprint, the letter-cycling print animation.                    *)
(* The OpenCV primitives (findContours, contourArea, boundingRect,         *)
(* moments, inRange) are library calls: their results are the inputs of    *)
(* the actions, drawn from bounded sets.                                   *)
(***************************************************************************)
EXTENDS Integers, Sequences, FiniteSets

VARIABLES
    min_area, max_area,   \* detector configuration (constructor arguments)
    prev_pos,             \* self.prev_pos: <<>> (None) or <<x, y>>
    op,                   \* the last call: "init", "laser" or "hsv"
    frame,                \* contours findContours returned in the last call
    result,               \* what the last call returned: <<>> (None) or <<x, y>>
    pre_prev,             \* self.prev_pos when the last call was entered
    raw,                  \* centroid (cx, cy) of lines 71-72 / 131-132 in the last call, else <<>>
    color, pixel, mask,   \* detect_laser_hsv: laser_color, one HSV pixel, its mask bit
    text, output, x, li, pc   \* tiktokprint: its locals and position

vars == <<min_area, max_area, prev_pos, op, frame, result, pre_prev, raw,
          color, pixel, mask, text, output, x, li, pc>>

detVars == <<min_area, max_area, prev_pos, op, frame, result, pre_prev, raw,
             color, pixel, mask>>
tikVars == <<text, output, x, li, pc>>

None == <<>>

(***************************************************************************)
(* Bounds of the model.                                                    *)
(***************************************************************************)
W == 4                 \* frame width: x coordinates are 0..W-1
H == 2                 \* frame height: y coordinates are 0..H-1
MaxContourArea == 4    \* contour areas are 0..MaxContourArea
MaxContours == 3       \* contours per frame in the selection specification
MaxTextLen == 2        \* length of the string given to tiktokprint

(***************************************************************************)
(* IEEE-754 double arithmetic of  0.7 * cx + 0.3 * px  on small            *)
(* non-negative integers.  A double that approximates X/10 is kept as      *)
(* [X, r, e]: its value is X/10 + r / (10 * 2^(52 - e)), where e is its    *)
(* binary exponent (2^e <= value < 2^(e+1)), so r/10 is its distance from  *)
(* X/10 in units in the last place.  The literals are                      *)
(*   0.7 = 7/10 - 4/(10 * 2^53),   0.3 = 3/10 - 1/(10 * 2^53).             *)
(***************************************************************************)
RECURSIVE Pow2(_)
Pow2(n) == IF n <= 0 THEN 1 ELSE 2 * Pow2(n - 1)

\* 2^m mod 20 for m >= 2 (period 4: 4, 8, 16, 12)
Pow2Mod20(m) ==
    CASE m % 4 = 2 -> 4
      [] m % 4 = 3 -> 8
      [] m % 4 = 0 -> 16
      [] OTHER     -> 12

\* the binary exponent of X/10, X >= 1
RECURSIVE ExpUp(_, _)
ExpUp(X, e) == IF 10 * Pow2(e + 1) <= X THEN ExpUp(X, e + 1) ELSE e
RECURSIVE ExpDown(_, _)
ExpDown(X, k) == IF X * Pow2(k) >= 10 THEN 0 - k ELSE ExpDown(X, k + 1)
Exponent(X) == IF X >= 10 THEN ExpUp(X, 0) ELSE ExpDown(X, 1)

\* round Fn/Fd (Fd > 0) to the nearest integer, ties to the even mantissa;
\* odd tells whether the integer part of the mantissa is odd
RoundHalfEven(Fn, Fd, odd) ==
    LET q   == Fn \div Fd
        rem == Fn - q * Fd
    IN  IF 2 * rem < Fd THEN q
        ELSE IF 2 * rem > Fd THEN q + 1
        ELSE IF (q % 2 = 1) = odd THEN q ELSE q + 1

FloatZero == [X |-> 0, r |-> 0, e |-> 0]

\* fl(lit * n) for the literal a/10 - d/(10 * 2^53) and the integer n >= 0
FloatMulLit(a, d, n) ==
    IF n = 0 THEN FloatZero
    ELSE
    LET X  == a * n
        e  == Exponent(X)
        T  == (X * Pow2Mod20(52 - e)) % 20
        R  == T % 10
        Fn == IF e + 1 >= 0 THEN R * Pow2(e + 1) - d * n
                            ELSE R - d * n * Pow2(0 - (e + 1))
        Fd == IF e + 1 >= 0 THEN 10 * Pow2(e + 1) ELSE 10
        rd == RoundHalfEven(Fn, Fd, T \div 10 = 1)
    IN  [X |-> X, r |-> 10 * rd - R, e |-> e]

\* fl(a + b) of two such doubles
FloatAdd(a, b) ==
    IF a.X = 0 THEN b
    ELSE IF b.X = 0 THEN a
    ELSE
    LET X    == a.X + b.X
        emin == IF a.e < b.e THEN a.e ELSE b.e
        Pn   == a.r * Pow2(a.e - emin) + b.r * Pow2(b.e - emin)
        e0   == Exponent(X)
        e    == IF X = 10 * Pow2(e0) /\ Pn < 0 THEN e0 - 1 ELSE e0
        g    == e - emin
        T    == (X * Pow2Mod20(52 - e)) % 20
        R    == T % 10
        rd   == RoundHalfEven(R * Pow2(g) + Pn, 10 * Pow2(g), T \div 10 = 1)
    IN  [X |-> X, r |-> 10 * rd - R, e |-> e]

\* int(f) for a double f >= 0: truncation
FloatInt(f) ==
    IF f.X % 10 = 0 /\ f.r < 0 THEN (f.X \div 10) - 1 ELSE f.X \div 10


(***************************************************************************)
(* What the OpenCV calls return for a contour.  A contour is a record      *)
(* [area, bright, m10, m01]: cv2.contourArea, np.mean of its bounding box  *)
(* in the grayscale frame, and its first-order moments.  cv2.moments       *)
(* computes m00 by the same Green formula as cv2.contourArea.              *)
(***************************************************************************)
ContourArea(c) == c.area
MeanBrightness(c) == c.bright
Moments(c) == [m00 |-> c.area, m10 |-> c.m10, m01 |-> c.m01]

Areas == 0..MaxContourArea

\* a contour of area a around pixel (cx, cy), its centroid f/a further on both axes
MkContour(a, b, cx, cy, f) ==
    [area |-> a, bright |-> b, m10 |-> a * cx + f, m01 |-> a * cy + f]

\* the centroid of a contour of non-zero area lies inside the frame
InFrame(c) == c.m10 <= c.area * (W - 1) /\ c.m01 <= c.area * (H - 1)

(***************************************************************************)
(* LaserPointerDetector.detect_laser                                       *)
(***************************************************************************)
AreaInRange_NoMax(area, lo, hi) == lo <= area

\* self.min_area <= area <= self.max_area
AreaInRange(area, lo, hi) == lo <= area /\ area <= hi

\* the loop of lines 49-60: the contours kept, in order
RECURSIVE ValidContours(_, _, _)
ValidContours(contours, lo, hi) ==
    IF contours = <<>> THEN <<>>
    ELSE LET rest == ValidContours(Tail(contours), lo, hi)
         IN  IF AreaInRange(ContourArea(Head(contours)), lo, hi)
             THEN <<Head(contours)>> \o rest
             ELSE rest

Brightest_First(valid) == Head(valid)

\* max(valid_contours, key=lambda x: x[1])[0]: the first contour of maximal brightness
RECURSIVE BrightestFrom(_, _)
BrightestFrom(best, rest) ==
    IF rest = <<>> THEN best
    ELSE IF MeanBrightness(Head(rest)) > MeanBrightness(best)
         THEN BrightestFrom(Head(rest), Tail(rest))
         ELSE BrightestFrom(best, Tail(rest))
Brightest(valid) == BrightestFrom(Head(valid), Tail(valid))

\* cx = int(M["m10"] / M["m00"]); cy = int(M["m01"] / M["m00"]), moments >= 0
Centroid(M) == <<M.m10 \div M.m00, M.m01 \div M.m00>>

Blend_Typo(c, p) == (7 * c + 7 * p) \div 10

\* int(0.7 * c + 0.3 * p) in double arithmetic
Blend(c, p) == FloatInt(FloatAdd(FloatMulLit(7, 4, c), FloatMulLit(3, 1, p)))

Smooth_FromOrigin(c, prev) ==
    IF prev # None THEN <<Blend(c[1], prev[1]), Blend(c[2], prev[2])>>
                   ELSE <<Blend(c[1], 0), Blend(c[2], 0)>>

\* lines 75-77: blend with the previous position when there is one
Smooth(c, prev) ==
    IF prev # None THEN <<Blend(c[1], prev[1]), Blend(c[2], prev[2])>> ELSE c

NextPrev_Reset(res, prev) == res

\* self.prev_pos after the call: line 79 runs only on the path that returns a position
NextPrev(res, prev) == IF res # None THEN res ELSE prev

\* the centroid lines 69-72 compute, <<>> when the call returns before them
LaserCentroid(contours, lo, hi) ==
    IF contours = <<>> THEN None
    ELSE LET valid == ValidContours(contours, lo, hi)
         IN  IF valid = <<>> THEN None
             ELSE LET M == Moments(Brightest(valid))
                  IN  IF M.m00 # 0 THEN Centroid(M) ELSE None

DetectLaser(contours) ==
    LET c   == LaserCentroid(contours, min_area, max_area)
        res == IF c # None THEN Smooth(c, prev_pos) ELSE None
    IN  /\ op' = "laser"
        /\ frame' = contours
        /\ pre_prev' = prev_pos
        /\ raw' = c
        /\ result' = res
        /\ prev_pos' = NextPrev(res, prev_pos)
        /\ UNCHANGED <<min_area, max_area, color, pixel, mask>>
        /\ UNCHANGED tikVars

(***************************************************************************)
(* LaserPointerDetector.detect_laser_hsv                                   *)
(***************************************************************************)
\* color_ranges, lines 99-104
ColorRanges(name) ==
    CASE name = "red"   -> << <<0, 50, 50>>,   <<10, 255, 255>> >>
      [] name = "red2"  -> << <<170, 50, 50>>, <<180, 255, 255>> >>
      [] name = "green" -> << <<40, 50, 50>>,  <<80, 255, 255>> >>
      [] name = "blue"  -> << <<100, 50, 50>>, <<130, 255, 255>> >>

\* cv2.inRange on one pixel: every channel within its bounds, both inclusive
InRange(px, lower, upper) == \A i \in 1..3 : lower[i] <= px[i] /\ px[i] <= upper[i]

HsvMask_OneRange(laser_color, px) ==
    InRange(px, ColorRanges(laser_color)[1], ColorRanges(laser_color)[2])

\* lines 106-113: the mask bit of one pixel
HsvMask(laser_color, px) ==
    IF laser_color = "red"
    THEN \/ InRange(px, ColorRanges("red")[1], ColorRanges("red")[2])
         \/ InRange(px, ColorRanges("red2")[1], ColorRanges("red2")[2])
    ELSE InRange(px, ColorRanges(laser_color)[1], ColorRanges(laser_color)[2])

\* max(contours, key=cv2.contourArea): the first contour of maximal area
RECURSIVE LargestFrom(_, _)
LargestFrom(best, rest) ==
    IF rest = <<>> THEN best
    ELSE IF ContourArea(Head(rest)) > ContourArea(best)
         THEN LargestFrom(Head(rest), Tail(rest))
         ELSE LargestFrom(best, Tail(rest))

HsvCentroid_Filtered(contours, lo, hi) ==
    LET valid == ValidContours(contours, lo, hi)
    IN  IF valid = <<>> THEN None
        ELSE LET M == Moments(LargestFrom(Head(valid), Tail(valid)))
             IN  IF M.m00 # 0 THEN Centroid(M) ELSE None

\* lines 123-135: what the call returns for the contours of the mask
HsvCentroid(contours, lo, hi) ==
    IF contours = <<>> THEN None
    ELSE LET largest_contour == LargestFrom(Head(contours), Tail(contours))
             area == ContourArea(largest_contour)
         IN  IF AreaInRange(area, lo, hi)
             THEN LET M == Moments(largest_contour)
                  IN  IF M.m00 # 0 THEN Centroid(M) ELSE None
             ELSE None

DetectLaserHsv(contours, laser_color, px) ==
    LET c == HsvCentroid(contours, min_area, max_area)
    IN  /\ op' = "hsv"
        /\ frame' = contours
        /\ color' = laser_color
        /\ pixel' = px
        /\ mask' = HsvMask(laser_color, px)
        /\ pre_prev' = prev_pos
        /\ raw' = c
        /\ result' = c
        /\ UNCHANGED <<min_area, max_area, prev_pos>>
        /\ UNCHANGED tikVars

(***************************************************************************)
(* tiktokprint                                                             *)
(***************************************************************************)
\* " " + string.ascii_uppercase
Letters == <<" ", "A", "B", "C", "D", "E", "F", "G", "H", "I", "J", "K", "L", "M",
             "N", "O", "P", "Q", "R", "S", "T", "U", "V", "W", "X", "Y", "Z">>
LowerCase == <<"a", "b", "c", "d", "e", "f", "g", "h", "i", "j", "k", "l", "m",
               "n", "o", "p", "q", "r", "s", "t", "u", "v", "w", "x", "y", "z">>

\* str.upper on one character: a lower-case letter becomes its capital, all else stays
UpperChar(ch) ==
    IF \E i \in 1..Len(LowerCase) : LowerCase[i] = ch
    THEN Letters[1 + CHOOSE i \in 1..Len(LowerCase) : LowerCase[i] = ch]
    ELSE ch
Upper(s) == [i \in 1..Len(s) |-> UpperChar(s[i])]

\* line 7-9: text = text.upper(); output = [""]*len(text)
TikBegin ==
    /\ pc = "begin"
    /\ text' = Upper(text)
    /\ output' = [i \in 1..Len(text) |-> ""]
    /\ x' = 0
    /\ li' = 1
    /\ pc' = IF Len(text) = 0 THEN "done" ELSE "inner"
    /\ UNCHANGED detVars

\* one iteration of the inner loop (lines 11-16), x counted from 0 as in the code
TikStep ==
    /\ pc = "inner"
    /\ output' = [output EXCEPT ![x + 1] = Letters[li]]
    /\ IF text[x + 1] = Letters[li] \/ li = Len(Letters)
       THEN /\ x' = x + 1
            /\ li' = 1
            /\ pc' = IF x + 1 = Len(text) THEN "done" ELSE "inner"
       ELSE /\ li' = li + 1
            /\ UNCHANGED <<x, pc>>
    /\ UNCHANGED text
    /\ UNCHANGED detVars

(***************************************************************************)
(* Inputs and specifications                                               *)
(***************************************************************************)
MinAreas == {0, 2}

InitDetector ==
    /\ min_area \in MinAreas
    /\ max_area = MaxContourArea - 1
    /\ prev_pos = None
    /\ op = "init"
    /\ frame = <<>>
    /\ result = None
    /\ pre_prev = None
    /\ raw = None
    /\ color = "red"
    /\ pixel = <<0, 0, 0>>
    /\ mask = FALSE

IdleTik == text = <<>> /\ output = <<>> /\ x = 0 /\ li = 1 /\ pc = "idle"

\* frames of at most one contour, its centroid anywhere in the frame
BlendContours ==
    {c \in {MkContour(a, 1, cx, cy, f) :
                a \in Areas, cx \in 0..(W - 1), cy \in 0..(H - 1), f \in 0..MaxContourArea} :
        InFrame(c)}
BlendFrames == {<<>>} \cup {<<c>> : c \in BlendContours}

ProbePixel == <<0, 255, 255>>

InitBlend == InitDetector /\ IdleTik
NextBlend ==
    \/ \E f \in BlendFrames : DetectLaser(f)
    \/ \E f \in BlendFrames : DetectLaserHsv(f, "red", ProbePixel)
SpecBlend == InitBlend /\ [][NextBlend]_vars

\* frames of several contours: two in range (the dimmer one the larger), one above
\* max_area and brighter than both, one of area zero
Dim == MkContour(3, 1, 0, 0, 0)
Bright == MkContour(2, 2, 1, 1, 0)
Huge == MkContour(MaxContourArea, 3, 2, 0, 0)
Speck == MkContour(0, 3, 0, 0, 0)
Palette == {Dim, Bright, Huge, Speck}
SelectFrames == UNION {[1..n -> Palette] : n \in 0..MaxContours}

Colors == {"red", "green", "blue"}

InitSelect == InitDetector /\ IdleTik
NextSelect ==
    \/ \E f \in SelectFrames : DetectLaser(f)
    \/ \E f \in SelectFrames : DetectLaserHsv(f, "red", ProbePixel)
SpecSelect == InitSelect /\ [][NextSelect]_vars

\* HSV pixels around every bound of the colour ranges (hue is 0..179 in OpenCV)
HueSamples == {0, 5, 10, 11, 39, 40, 60, 80, 81, 99, 100, 115, 130, 131, 169, 170, 179}
SatValSamples == {49, 50, 255}
Pixels == HueSamples \X SatValSamples \X SatValSamples
MaskFrames == {<<>>, <<Bright>>}

InitMask == InitDetector /\ IdleTik
NextMask ==
    \E f \in MaskFrames, c \in Colors, px \in Pixels : DetectLaserHsv(f, c, px)
SpecMask == InitMask /\ [][NextMask]_vars

\* strings over a few characters: in the alphabet, lower case, and outside it
InputChars == {" ", "A", "Z", "a", "z", "1", "!"}
Texts == UNION {[1..n -> InputChars] : n \in 0..MaxTextLen}

InitTik ==
    /\ text \in Texts
    /\ output = <<>>
    /\ x = 0
    /\ li = 1
    /\ pc = "begin"
    /\ min_area = 0 /\ max_area = MaxContourArea - 1
    /\ prev_pos = None /\ op = "init" /\ frame = <<>> /\ result = None
    /\ pre_prev = None /\ raw = None
    /\ color = "red" /\ pixel = <<0, 0, 0>> /\ mask = FALSE
NextTik == TikBegin \/ TikStep
SpecTik == InitTik /\ [][NextTik]_vars


(***************************************************************************)
(* Properties                                                              *)
(***************************************************************************)
Dist(a, b) == IF a >= b THEN a - b ELSE b - a

\* positions of the contours of f whose area is inside [min_area, max_area]
InRangeIdx(f) == {i \in DOMAIN f : min_area <= f[i].area /\ f[i].area <= max_area}

\* the contour of highest mean brightness among those, the earliest of equals
BrightestIdx(f) ==
    CHOOSE i \in InRangeIdx(f) :
        \A j \in InRangeIdx(f) :
            \/ f[j].bright < f[i].bright
            \/ f[j].bright = f[i].bright /\ i <= j

\* the truncated centroid of that contour, none when nothing qualifies or m00 = 0
ExpectedLaserRaw(f) ==
    IF InRangeIdx(f) = {} THEN None
    ELSE LET c == f[BrightestIdx(f)]
         IN  IF c.area = 0 THEN None ELSE <<c.m10 \div c.area, c.m01 \div c.area>>

ContourInRange(c) == min_area <= c.area /\ c.area <= max_area
WithoutOutOfRange(f) == SelectSeq(f, ContourInRange)

\* C1: detect_laser returns the truncated exact blend (7*cx + 3*px)/10 on both
\* axes when a previous position is stored, and the raw centroid when none is.
C1_BlendIsExactTrunc ==
    (op = "laser" /\ result # None) =>
        IF pre_prev # None
        THEN \A i \in 1..2 : result[i] = (7 * raw[i] + 3 * pre_prev[i]) \div 10
        ELSE result = raw

\* C2: detect_laser returns None exactly when no contour has its area in
\* [min_area, max_area] or the selected contour has m00 = 0; otherwise it
\* returns one pair of coordinates.
C2_NoneExactlyWhenNothingQualifies ==
    op = "laser" =>
        /\ result = None <=>
              \/ InRangeIdx(frame) = {}
              \/ Moments(frame[BrightestIdx(frame)]).m00 = 0
        /\ result # None => Len(result) = 2 /\ result[1] \in Nat /\ result[2] \in Nat

\* a call whose brightest contour in range has zero moment, beside another in
\* range of non-zero moment, and which returned None
C2_Witness ==
    /\ op = "laser"
    /\ result = None
    /\ InRangeIdx(frame) # {}
    /\ Moments(frame[BrightestIdx(frame)]).m00 = 0
    /\ \E i \in InRangeIdx(frame) : frame[i].area # 0

\* C3: detect_laser computes its position from the brightest contour among
\* those in range, and contours out of range, however bright, change nothing.
C3_OutOfRangeIgnored ==
    op = "laser" =>
        /\ raw = ExpectedLaserRaw(frame)
        /\ raw = LaserCentroid(WithoutOutOfRange(frame), min_area, max_area)
        /\ result = None <=> raw = None

\* a detection in a frame whose brightest contour is out of range and whose
\* first contour in range is not the brightest in range
C3_Witness ==
    /\ op = "laser"
    /\ result # None
    /\ \E i \in DOMAIN frame :
          /\ frame[i].area > max_area
          /\ \A j \in InRangeIdx(frame) : frame[j].bright < frame[i].bright
    /\ \E j \in InRangeIdx(frame) : j < BrightestIdx(frame)

\* positions of the contours of f whose area is at least min_area
KeptIdx(f) == {i \in DOMAIN f : f[i].area >= min_area}

\* detect_laser_hsv on f without its contours below min_area: the largest
\* contour (the earliest of equals) decides alone
ExpectedHsv(f) ==
    IF KeptIdx(f) = {} THEN None
    ELSE LET i == CHOOSE k \in KeptIdx(f) :
                     \A j \in KeptIdx(f) :
                         \/ f[j].area < f[k].area
                         \/ f[j].area = f[k].area /\ k <= j
             c == f[i]
         IN  IF c.area <= max_area /\ c.area # 0
             THEN <<c.m10 \div c.area, c.m01 \div c.area>>
             ELSE None

\* the largest contour in range (the earliest of equals) decides
ExpectedHsvFiltered(f) ==
    IF InRangeIdx(f) = {} THEN None
    ELSE LET i == CHOOSE k \in InRangeIdx(f) :
                     \A j \in InRangeIdx(f) :
                         \/ f[j].area < f[k].area
                         \/ f[j].area = f[k].area /\ k <= j
             c == f[i]
         IN  IF c.area # 0 THEN <<c.m10 \div c.area, c.m01 \div c.area>> ELSE None

\* C4 as stated: detect_laser_hsv returns what it returns on the same contours
\* with all those out of range removed.
C4_HsvIgnoresOutOfRange ==
    op = "hsv" => result = ExpectedHsvFiltered(frame)

\* C4 as amended: detect_laser_hsv ignores the contours below min_area only;
\* the largest contour decides alone, so a contour above max_area makes the
\* call return None whatever else the mask holds.
C4_HsvLargestDecides ==
    op = "hsv" =>
        /\ result = ExpectedHsv(frame)
        /\ (\E i \in DOMAIN frame : frame[i].area > max_area) => result = None

\* a mask with a contour in range of non-zero moment and a larger one above
\* max_area, for which detect_laser_hsv returned None
C4_Witness ==
    /\ op = "hsv"
    /\ result = None
    /\ \E i \in InRangeIdx(frame) : frame[i].area # 0
    /\ \E i \in DOMAIN frame : frame[i].area > max_area
    /\ \E i \in DOMAIN frame : frame[i].area < min_area

\* the frame of the last call holds one contour, of non-zero area in range
SingleDisk == Len(frame) = 1 /\ frame[1].area # 0 /\ ContourInRange(frame[1])

\* |r - m/a| <= 1
WithinOnePixel(r, m, a) == Dist(r * a, m) <= a

\* C5 as stated: for a single disk in range detect_laser returns a position
\* within one pixel of the disk's centroid m10/m00, m01/m00 in every state.
C5_WithinOnePixelAlways ==
    (op = "laser" /\ SingleDisk) =>
        /\ WithinOnePixel(result[1], frame[1].m10, frame[1].area)
        /\ WithinOnePixel(result[2], frame[1].m01, frame[1].area)

\* C5 as amended: it does so when the detector holds no previous position.
C5_WithinOnePixelWhenFresh ==
    (op = "laser" /\ SingleDisk /\ pre_prev = None) =>
        /\ result # None
        /\ WithinOnePixel(result[1], frame[1].m10, frame[1].area)
        /\ WithinOnePixel(result[2], frame[1].m01, frame[1].area)

\* a first detection of a disk whose centroid is between two pixels
C5_Witness ==
    /\ op = "laser"
    /\ SingleDisk
    /\ pre_prev = None
    /\ result # None
    /\ frame[1].m10 % frame[1].area # 0
    /\ frame[1].m10 > frame[1].area

\* C6: when tiktokprint finishes, the output buffer equals the upper-cased
\* input, character for character.
C6_OutputEqualsUpperText ==
    pc = "done" => output = text

PosInFrame(p) == 0 <= p[1] /\ p[1] < W /\ 0 <= p[2] /\ p[2] < H

\* C8: the stored previous position and every returned position are inside
\* the frame.
C8_PositionsInFrame ==
    /\ prev_pos # None => PosInFrame(prev_pos)
    /\ result # None => PosInFrame(result)

\* a blended position on the last column of the frame
C8_Witness ==
    /\ op = "laser"
    /\ pre_prev # None
    /\ result # None
    /\ result # raw
    /\ raw[1] = W - 1

\* C9: prev_pos is written only by a detect_laser call that returns a
\* position, to that position; it is never reset to None; a detection after
\* frames without one is blended with the position stored before them.
C9_PrevPosWrittenOnlyOnDetection ==
    [][/\ (op' = "laser" /\ result' # None) => prev_pos' = result'
       /\ (op' = "hsv" \/ result' = None) => prev_pos' = prev_pos
       /\ prev_pos # None => prev_pos' # None
       /\ (op' = "laser" /\ result' # None /\ prev_pos # None) =>
             \A i \in 1..2 :
                 Dist(10 * result'[i] + 5, 7 * raw'[i] + 3 * prev_pos[i]) <= 5
      ]_vars

\* a detect_laser call that found nothing and kept the stored position
C9_Witness ==
    op = "laser" /\ result = None /\ prev_pos # None /\ pre_prev = prev_pos

\* C10: while detect_laser computes the same raw centroid c, the returned
\* coordinate never moves away from c, stays at c once there, and stays at
\* c - 1 once there.
C10_NeverMovesAway ==
    [][(op = "laser" /\ op' = "laser" /\ raw # None /\ raw' = raw) =>
          \A i \in 1..2 :
              /\ Dist(result'[i], raw[i]) <= Dist(result[i], raw[i])
              /\ result[i] = raw[i] - 1 => result'[i] = raw[i] - 1
      ]_vars

=============================================================================
